---- MODULE Spec2Model ----
(***************************************************************************)
(* Micro-batching library (jonogilmour/code-challenge).                    *)
(*                                                                         *)
(* Two drafts of the batcher are modelled side by side, selected by the    *)
(* variable `variant`:                                                     *)
(*   "record"  - src/src/batcher.ts: addJob returns the Job record, whose  *)
(*               result.status is read by the caller;                      *)
(*   "promise" - src/unnamed/part_000 (lines 1-149): addJob returns a      *)
(*               promise, shutdown returns a promise.                      *)
(*                                                                         *)
(* Scheduling follows the JavaScript event loop: one action is one         *)
(* macrotask (a caller's call, a setInterval firing, the completion of an  *)
(* asynchronous callback) together with all the microtasks it triggers.    *)
(* A callback that returns a value, throws, or returns an already settled  *)
(* promise finishes inside the macrotask of its tick ("fast"); a callback  *)
(* that waits for a timer or I/O ("slow") leaves the tick suspended at     *)
(* `await batchProcessor(...)`, and setInterval keeps firing meanwhile.    *)
(***************************************************************************)
EXTENDS Integers, Sequences, FiniteSets, TLC

\* ---------------------------------------------------------------- bounds
MaxJobs == 3          \* addJob calls made by the callers over a run
MaxBatchSize == 2     \* batchSize is drawn from 1..MaxBatchSize
MaxMaxBatches == 2    \* maxBatches is drawn from 0..MaxMaxBatches
PairJobs == 1         \* addJob calls on each of two batchers run side by side

JobId == 1..MaxJobs
TickCap == MaxJobs + 1   \* ticksSince never counts beyond this

\* ------------------------------------------------------------- constants
Pending == "PENDING"
InProgress == "IN_PROGRESS"
Complete == "COMPLETE"
Failed == "FAILED"
ShuttingDown == "BATCHER_SHUTTING_DOWN"
QueueFull == "BATCHER_QUEUE_FULL"

\* What a callback does when it is run: it returns (or its promise
\* resolves), throws an Error, or throws a value that is no Error.
Outcome == {"returns", "throwsError", "throwsOther"}
\* "slow": the callback's promise is still pending when the tick's
\* macrotask ends.
Slow == "slow"

VARIABLES
    variant,        \* "record" | "promise": which draft is running
    args,           \* the argument object newBatcher was called with
    batchSize,      \* batcher.batchSize ("none" while there is no batcher object)
    maxBatches,     \* batcher.maxBatches ("none" while there is no batcher object)
    queue,          \* batcher.queue, a sequence of job ids
    isShutdown,     \* batcher.isShutdown
    shutdownResolver, \* batcher.shutdownResolver (promise variant): "undefined" | "set"
    shutdownPromise,  \* the promise shutdown() returned: "none" | "pending" | "fulfilled"
    interval,       \* the setInterval timer: "none" (not started) | "active" | "cleared"
    clearCalls,     \* number of clearInterval(interval) calls
    result,         \* job.result of each Job record (record variant)
    handle,         \* the JobResult promise of each addJob call (promise variant)
    run,            \* each submitted callback: "new" | "rejected" | "queued" | "running" | an Outcome
    calls,          \* how many times each callback was invoked
    inflight,       \* the ticks suspended at `await batchProcessor`, each as the set of its jobs
    started,        \* job ids in the order their callbacks were invoked
    nextId,         \* id of the next addJob call
    op,             \* the last operation: "call" (newBatcher entered) | "new" | "addJob" | "tick" | "settle" | "shutdown"
    ret,            \* what the last addJob, shutdown returned or threw, what newBatcher
                    \* threw; "none" otherwise
    log,            \* the notices the last operation passed to log()
    trail,          \* every value written to job.result.status, in order (record variant)
    shutdownN,      \* queue length at the first shutdown() call; -1 before it
    ticksSince,     \* timer firings since the first shutdown() call (saturating, see Bump)
    suspendedSince, \* a tick was or became suspended at or after the first shutdown() call
    peer            \* a second batcher, built by another newBatcher call: its queue,
                    \* isShutdown, timer, job statuses

vars == <<variant, args, batchSize, maxBatches, queue, isShutdown, shutdownResolver,
          shutdownPromise, interval, clearCalls, result, handle, run, calls,
          inflight, started, nextId, op, ret, log, trail, shutdownN, ticksSince,
          suspendedSince, peer>>

\* What no operation of the batcher writes after construction; `peer` is
\* among it because every function of batcher.ts:73-136 reaches only the
\* `batcher` and `interval` of its own newBatcher call.
config == <<variant, args, batchSize, maxBatches, peer>>
ghost == <<shutdownN, ticksSince, suspendedSince>>

\* --------------------------------------------------------------- helpers
Min(a, b) == IF a < b THEN a ELSE b
Range(s) == {s[i] : i \in 1..Len(s)}

NoResult == [status |-> "NONE", message |-> "undefined", error |-> "undefined"]
\* Mutant of NewResult: the job is born IN_PROGRESS.
NewResultInProgress == [status |-> InProgress, message |-> "undefined", error |-> "undefined"]

\* batcher.ts:79-85: the result of a freshly created Job
NewResult == [status |-> Pending, message |-> "undefined", error |-> "undefined"]

\* Mutants of HasRoom: `<=` for `<`; the batch size forgotten.
HasRoomOffByOne(len, mb, bs) == mb < 1 \/ len <= mb * bs
HasRoomIgnoresBatchSize(len, mb, bs) == mb < 1 \/ len < mb
HasRoomAlways(len, mb, bs) == TRUE
HasRoomNoUnlimited(len, mb, bs) == len < mb * bs

\* batcher.ts:78: is there room for one more job?
HasRoom(len, mb, bs) == mb < 1 \/ len < mb * bs

\* Mutant of QueueHasJobs: a tick drains nothing while an earlier tick is
\* still awaiting its batch.
QueueHasJobsWhenIdle(q) == Len(q) # 0 /\ inflight = {}

\* Mutant of QueueHasJobs: the test is left out.
QueueHasJobsAlways(q) == TRUE

\* batcher.ts:95: `if (batcher.queue.length)`
QueueHasJobs(q) == Len(q) # 0

\* Mutant of BatchLen: the whole queue is taken.
BatchLenAll(bs, len) == len

\* Mutant of BatchLen: Math.max for Math.min.
BatchLenMax(bs, len) == IF bs > len THEN bs ELSE len

\* batcher.ts:97: the size of the next batch
BatchLen(bs, len) == Min(bs, len)

\* Mutant of ShiftLoop: queue.pop() for queue.shift().
RECURSIVE PopLoop(_, _, _)
PopLoop(q, n, taken) ==
    IF n = 0 THEN <<taken, q>>
    ELSE IF Len(q) = 0 THEN PopLoop(q, n - 1, taken)
    ELSE PopLoop(SubSeq(q, 1, Len(q) - 1), n - 1, Append(taken, q[Len(q)]))

\* Mutant of ShiftLoop: a second queue.shift() in the loop body throws a job
\* away.
RECURSIVE SkipLoop(_, _, _)
SkipLoop(q, n, taken) ==
    IF n = 0 THEN <<taken, q>>
    ELSE IF Len(q) = 0 THEN SkipLoop(q, n - 1, taken)
    ELSE SkipLoop(IF Len(q) > 1 THEN Tail(Tail(q)) ELSE <<>>, n - 1, Append(taken, Head(q)))

\* Mutant of ShiftLoop: queue[0] is read, the job stays in the queue.
RECURSIVE PeekLoop(_, _, _)
PeekLoop(q, n, taken) ==
    IF n = 0 THEN <<taken, q>>
    ELSE IF Len(q) = 0 THEN PeekLoop(q, n - 1, taken)
    ELSE PeekLoop(q, n - 1, Append(taken, Head(q)))

\* batcher.ts:148-155: `size` times queue.shift(); a shift of an empty
\* queue yields undefined and is skipped.  <<jobs taken, queue left>>
RECURSIVE ShiftLoop(_, _, _)
ShiftLoop(q, n, taken) ==
    IF n = 0 THEN <<taken, q>>
    ELSE IF Len(q) = 0 THEN ShiftLoop(q, n - 1, taken)
    ELSE ShiftLoop(Tail(q), n - 1, Append(taken, Head(q)))

\* Mutant of Splice: queue.slice for queue.splice, the queue keeps the jobs.
SliceOnly(q, n) == <<SubSeq(q, 1, Min(n, Len(q))), q>>

\* part_000:96: queue.splice(0, batchSize).  <<jobs taken, queue left>>
Splice(q, n) ==
    <<SubSeq(q, 1, Min(n, Len(q))), SubSeq(q, Min(n, Len(q)) + 1, Len(q))>>

\* Mutant of FinalBatch: the queue test is inverted.
FinalBatchQueueLeft(sd, q) == sd /\ Len(q) # 0

\* Mutants of FinalBatch: the queue is not looked at; the flag is not.
FinalBatchAnyQueue(sd, q) == sd
FinalBatchIgnoresShutdown(sd, q) == Len(q) = 0

\* batcher.ts:104: this was the final batch
FinalBatch(sd, q) == sd /\ Len(q) = 0

\* part_000:101: this was the final batch, and a resolver is there
FinalBatchP(sd, q, resolver) == sd /\ Len(q) = 0 /\ resolver # "undefined"

\* Mutant of ResultOf: the catch block handles Error values only, a thrown
\* value of another type leaves the job IN_PROGRESS.
ResultOfErrorsOnly(o) ==
    CASE o = "returns" ->
           [status |-> Complete, message |-> "Job completed without errors",
            error |-> "undefined"]
      [] o = "throwsError" ->
           [status |-> Failed, message |-> "Job returned an error", error |-> "Error"]
      [] OTHER ->
           [status |-> InProgress, message |-> "undefined", error |-> "undefined"]

\* Mutant of ResultOf: whatever was thrown is stored as the error, under
\* the message of a known error.
ResultOfStoresAnyValue(o) ==
    CASE o = "returns" ->
           [status |-> Complete, message |-> "Job completed without errors",
            error |-> "undefined"]
      [] o = "throwsError" ->
           [status |-> Failed, message |-> "Job returned an error", error |-> "Error"]
      [] o = "throwsOther" ->
           [status |-> Failed, message |-> "Job returned an error", error |-> "other"]
      [] o = Slow ->
           [status |-> InProgress, message |-> "undefined", error |-> "undefined"]

\* batcher.ts:163-179: the result jobProcessor leaves for an outcome
ResultOf(o) ==
    CASE o = "returns" ->
           [status |-> Complete, message |-> "Job completed without errors",
            error |-> "undefined"]
      [] o = "throwsError" ->
           [status |-> Failed, message |-> "Job returned an error", error |-> "Error"]
      [] o = "throwsOther" ->
           [status |-> Failed, message |-> "Job returned an error. Error type unknown",
            error |-> "undefined"]
      [] o = Slow ->
           [status |-> InProgress, message |-> "undefined", error |-> "undefined"]

\* Mutant of HandleOf: the catch block resolves the promise as well.
HandleOfSwallowsErrors(o) == IF o = Slow THEN "pending" ELSE "resolved"

\* part_000:72-79: how batchJob settles the JobResult promise
HandleOf(o) ==
    CASE o = "returns" -> "resolved"
      [] o = "throwsError" -> "rejected:Error"
      [] o = "throwsOther" -> "rejected:other"
      [] o = Slow -> "pending"

RunOf(o) == IF o = Slow THEN "running" ELSE o

\* Mutant of StatusWrites: the IN_PROGRESS mark is left out.
StatusWritesNoInProgress(o) == IF o = Slow THEN <<>> ELSE <<ResultOf(o).status>>

\* batcher.ts:164-171: the values jobProcessor writes to job.result.status
\* during the tick's macrotask: IN_PROGRESS before the callback is called,
\* then COMPLETE or FAILED unless the callback's promise is still pending.
StatusWrites(o) ==
    <<InProgress>> \o (IF o = Slow THEN <<>> ELSE <<ResultOf(o).status>>)

\* ticksSince stops counting one past the number of ticks that drain the
\* shutdownN jobs queued at the shutdown() call
Bump(n) == Min(n + 1, Min(TickCap, ((shutdownN + batchSize - 1) \div batchSize) + 1))

\* batcher.ts:122-136 a second time: the batcher of another newBatcher call
PeerJobId == 1..PairJobs
NewPeer ==
    [queue |-> <<>>, isShutdown |-> FALSE, interval |-> "active",
     status |-> [j \in PeerJobId |-> NoResult.status], nextId |-> 1]
\* no second newBatcher call was made
NoPeer == [NewPeer EXCEPT !.interval = "none"]

\* ------------------------------------------------- newBatcher's arguments
\* The numbers handed to newBatcher are counted in halves, so that values
\* such as 0.5 and 1.5 can be given: h stands for h/2.  An optional
\* parameter is <<>> when it is omitted and <<h>> when it is given.
Num(n) == 2 * n

\* Mutant of LessThanOne: `<= 0` for `< 1`.
NotPositive(h) == h <= 0

\* batcher.ts:64,68,124: `x < 1`
LessThanOne(h) == h < Num(1)

\* batcher.ts:124: Math.floor(x)
MathFloor(h) == h \div 2

\* batcher.ts:63: the default values of the destructured parameters
BatchSizeParam(a) == IF a.batchSize = <<>> THEN Num(1) ELSE a.batchSize[1]
MaxBatchesParam(a) == IF a.maxBatches = <<>> THEN Num(0) ELSE a.maxBatches[1]

\* Mutant of NormMaxBatches: Math.round for Math.floor.
NormMaxBatchesRounds(mb) == IF LessThanOne(mb) THEN 0 ELSE (mb + 1) \div 2

\* batcher.ts:124: `maxBatches < 1 ? 0 : Math.floor(maxBatches)`
NormMaxBatches(mb) == IF LessThanOne(mb) THEN 0 ELSE MathFloor(mb)

\* batcher.ts:123: batchSize is stored as given; the arguments drawn here
\* give whole numbers from 1 up, and values below 1 never get here.
StoredBatchSize(bs) == MathFloor(bs)

\* The arguments of the batchers whose runs are explored: whole numbers,
\* frequency 1.
RunArgs ==
    {[frequency |-> Num(1), batchSize |-> <<Num(b)>>, maxBatches |-> <<Num(mb)>>] :
        b \in 1..MaxBatchSize, mb \in 0..MaxMaxBatches}

\* The arguments newBatcher is tried with: omitted, negative, zero,
\* fractional and whole values.
AnyArgs ==
    [frequency : (0 - Num(1))..(Num(1) + 1),
     batchSize : {<<>>} \cup {<<h>> : h \in (0 - Num(1))..1}
                        \cup {<<Num(b)>> : b \in 1..MaxBatchSize},
     maxBatches : {<<>>} \cup {<<h>> : h \in (0 - Num(1) - 1)..(Num(MaxMaxBatches) + 1)}]

\* ------------------------------------------------------------------ Init
\* batcher.ts:122-136: the batcher object and the timer right after newBatcher
Init ==
    /\ variant \in {"record", "promise"}
    /\ args \in RunArgs
    /\ batchSize = StoredBatchSize(BatchSizeParam(args))
    /\ maxBatches = NormMaxBatches(MaxBatchesParam(args))
    /\ queue = <<>>
    /\ isShutdown = FALSE
    /\ shutdownResolver = "undefined"
    /\ shutdownPromise = "none"
    /\ interval = "active"
    /\ clearCalls = 0
    /\ result = [j \in JobId |-> NoResult]
    /\ handle = [j \in JobId |-> "none"]
    /\ run = [j \in JobId |-> "new"]
    /\ calls = [j \in JobId |-> 0]
    /\ inflight = {}
    /\ started = <<>>
    /\ nextId = 1
    /\ op = "new"
    /\ ret = "none"
    /\ log = <<"Starting batch processor">>
    /\ trail = [j \in JobId |-> <<>>]
    /\ shutdownN = -1
    /\ ticksSince = 0
    /\ suspendedSince = FALSE
    /\ peer = NoPeer

\* ------------------------------------------------------------ newBatcher
\* The state at the call of newBatcher(args): no batcher object, no timer.
InitCall ==
    /\ variant \in {"record", "promise"}
    /\ args \in AnyArgs
    /\ batchSize = "none"
    /\ maxBatches = "none"
    /\ queue = <<>>
    /\ isShutdown = FALSE
    /\ shutdownResolver = "undefined"
    /\ shutdownPromise = "none"
    /\ interval = "none"
    /\ clearCalls = 0
    /\ result = [j \in JobId |-> NoResult]
    /\ handle = [j \in JobId |-> "none"]
    /\ run = [j \in JobId |-> "new"]
    /\ calls = [j \in JobId |-> 0]
    /\ inflight = {}
    /\ started = <<>>
    /\ nextId = 1
    /\ op = "call"
    /\ ret = "none"
    /\ log = <<>>
    /\ trail = [j \in JobId |-> <<>>]
    /\ shutdownN = -1
    /\ ticksSince = 0
    /\ suspendedSince = FALSE
    /\ peer = NoPeer

\* batcher.ts:63-70 and 122-139 (part_000:52-59 and 124-139): newBatcher
\* throws, or builds the batcher object and starts the timer.
NewBatcher ==
    /\ op = "call"
    /\ op' = "new"
    /\ IF LessThanOne(args.frequency) THEN
          /\ ret' = "frequency cannot be less than 1ms"
          /\ UNCHANGED <<batchSize, maxBatches, interval, log>>
       ELSE IF LessThanOne(BatchSizeParam(args)) THEN
          /\ ret' = "batch size cannot be less than 1"
          /\ UNCHANGED <<batchSize, maxBatches, interval, log>>
       ELSE
          /\ batchSize' = StoredBatchSize(BatchSizeParam(args))
          /\ maxBatches' = NormMaxBatches(MaxBatchesParam(args))
          /\ interval' = "active"
          /\ log' = <<"Starting batch processor">>
          /\ ret' = "none"
    /\ UNCHANGED <<variant, args, queue, isShutdown, shutdownResolver, shutdownPromise,
                   clearCalls, result, handle, run, calls, inflight, started, nextId,
                   trail, ghost, peer>>

\* ---------------------------------------------------------------- addJob
\* Mutant of AddJob: the shutdown flag is not looked at.
AddJobIgnoresShutdown ==
    /\ variant = "record"
    /\ nextId <= MaxJobs
    /\ nextId' = nextId + 1
    /\ op' = "addJob"
    /\ log' = <<>>
    /\ IF HasRoom(Len(queue), maxBatches, batchSize) THEN
          /\ result' = [result EXCEPT ![nextId] = NewResult]
          /\ trail' = [trail EXCEPT ![nextId] = <<NewResult.status>>]
          /\ queue' = Append(queue, nextId)
          /\ run' = [run EXCEPT ![nextId] = "queued"]
          /\ ret' = "job"
       ELSE
          /\ ret' = QueueFull
          /\ run' = [run EXCEPT ![nextId] = "rejected"]
          /\ UNCHANGED <<queue, result, trail>>
    /\ UNCHANGED <<config, isShutdown, shutdownResolver, shutdownPromise, interval,
                   clearCalls, handle, calls, inflight, started, ghost>>

\* Mutant of AddJob: an accepted job is run at once instead of queued.
AddJobRunsAtOnce ==
    /\ variant = "record"
    /\ nextId <= MaxJobs
    /\ nextId' = nextId + 1
    /\ op' = "addJob"
    /\ log' = <<>>
    /\ IF isShutdown THEN
          /\ ret' = ShuttingDown
          /\ run' = [run EXCEPT ![nextId] = "rejected"]
          /\ UNCHANGED <<result, trail, calls, started>>
       ELSE IF HasRoom(Len(queue), maxBatches, batchSize) THEN
          /\ result' = [result EXCEPT ![nextId] = ResultOf("returns")]
          /\ trail' = [trail EXCEPT ![nextId] = <<NewResult.status>> \o StatusWrites("returns")]
          /\ calls' = [calls EXCEPT ![nextId] = 1]
          /\ started' = Append(started, nextId)
          /\ run' = [run EXCEPT ![nextId] = "returns"]
          /\ ret' = "job"
       ELSE
          /\ ret' = QueueFull
          /\ run' = [run EXCEPT ![nextId] = "rejected"]
          /\ UNCHANGED <<result, trail, calls, started>>
    /\ UNCHANGED <<config, queue, isShutdown, shutdownResolver, shutdownPromise, interval,
                   clearCalls, handle, inflight, ghost>>

\* Mutant of AddJob: the capacity is checked before the shutdown flag.
AddJobCapacityFirst ==
    /\ variant = "record"
    /\ nextId <= MaxJobs
    /\ nextId' = nextId + 1
    /\ op' = "addJob"
    /\ log' = <<>>
    /\ IF ~HasRoom(Len(queue), maxBatches, batchSize) THEN
          /\ ret' = QueueFull
          /\ run' = [run EXCEPT ![nextId] = "rejected"]
          /\ UNCHANGED <<queue, result, trail>>
       ELSE IF isShutdown THEN
          /\ ret' = ShuttingDown
          /\ run' = [run EXCEPT ![nextId] = "rejected"]
          /\ UNCHANGED <<queue, result, trail>>
       ELSE
          /\ result' = [result EXCEPT ![nextId] = NewResult]
          /\ trail' = [trail EXCEPT ![nextId] = <<NewResult.status>>]
          /\ queue' = Append(queue, nextId)
          /\ run' = [run EXCEPT ![nextId] = "queued"]
          /\ ret' = "job"
    /\ UNCHANGED <<config, isShutdown, shutdownResolver, shutdownPromise, interval,
                   clearCalls, handle, calls, inflight, started, ghost>>

\* batcher.ts:73-92: addJob of the record variant; throws or returns the Job
AddJob ==
    /\ variant = "record"
    /\ nextId <= MaxJobs
    /\ nextId' = nextId + 1
    /\ op' = "addJob"
    /\ log' = <<>>
    /\ IF isShutdown THEN
          /\ ret' = ShuttingDown
          /\ run' = [run EXCEPT ![nextId] = "rejected"]
          /\ UNCHANGED <<queue, result, trail>>
       ELSE IF HasRoom(Len(queue), maxBatches, batchSize) THEN
          /\ result' = [result EXCEPT ![nextId] = NewResult]
          /\ trail' = [trail EXCEPT ![nextId] = <<NewResult.status>>]
          /\ queue' = Append(queue, nextId)
          /\ run' = [run EXCEPT ![nextId] = "queued"]
          /\ ret' = "job"
       ELSE
          /\ ret' = QueueFull
          /\ run' = [run EXCEPT ![nextId] = "rejected"]
          /\ UNCHANGED <<queue, result, trail>>
    /\ UNCHANGED <<config, isShutdown, shutdownResolver, shutdownPromise, interval,
                   clearCalls, handle, calls, inflight, started, ghost>>

\* -------------------------------------------------- the end of a tick
\* Mutant of AfterBatch: a failed job of the batch also stops the timer.
AfterBatchStopsOnFailure(q) ==
    IF \/ FinalBatch(isShutdown, q)
       \/ \E j \in JobId : run[j] = "running" /\ run'[j] \in {"throwsError", "throwsOther"}
       \/ \E j \in JobId : run[j] = "queued" /\ run'[j] \in {"throwsError", "throwsOther"}
    THEN
        /\ interval' = "cleared"
        /\ clearCalls' = clearCalls + 1
    ELSE
        UNCHANGED <<interval, clearCalls>>

\* batcher.ts:103-108: after `await batchProcessor(size)`
AfterBatch(q) ==
    IF FinalBatch(isShutdown, q) THEN
        /\ interval' = "cleared"
        /\ clearCalls' = clearCalls + 1
    ELSE
        UNCHANGED <<interval, clearCalls>>

AfterBatchLog(q) ==
    IF FinalBatch(isShutdown, q) THEN <<"Batch processor shut down">> ELSE <<>>

\* ---------------------------------------------------------- processBatch
\* batcher.ts:94-112 with 143-160 and 163-179: one firing of setInterval.
\* `how` gives, for each job of the batch, what its callback does.
ProcessBatch ==
    /\ variant = "record"
    /\ interval = "active"
    /\ op' = "tick"
    /\ ret' = "none"
    /\ ticksSince' = IF isShutdown THEN Bump(ticksSince) ELSE ticksSince
    /\ IF QueueHasJobs(queue) THEN
          LET size == BatchLen(batchSize, Len(queue))
              sh == ShiftLoop(queue, size, <<>>)
              batch == sh[1]
              rest == sh[2]
          IN \E how \in [Range(batch) -> Outcome \cup {Slow}] :
              LET suspended == \E j \in Range(batch) : how[j] = Slow
              IN /\ queue' = rest
                 /\ started' = started \o batch
                 /\ calls' = [j \in JobId |->
                                 IF j \in Range(batch) THEN calls[j] + 1 ELSE calls[j]]
                 /\ run' = [j \in JobId |->
                                 IF j \in Range(batch) THEN RunOf(how[j]) ELSE run[j]]
                 /\ result' = [j \in JobId |->
                                 IF j \in Range(batch) THEN ResultOf(how[j]) ELSE result[j]]
                 /\ trail' = [j \in JobId |->
                                 IF j \in Range(batch) THEN trail[j] \o StatusWrites(how[j])
                                 ELSE trail[j]]
                 /\ IF suspended THEN
                       /\ inflight' = inflight \cup {Range(batch)}
                       /\ log' = <<"Processing batch of " \o ToString(size) \o " jobs.">>
                       /\ UNCHANGED <<interval, clearCalls>>
                    ELSE
                       /\ inflight' = inflight
                       /\ log' = <<"Processing batch of " \o ToString(size) \o " jobs.">> \o AfterBatchLog(rest)
                       /\ AfterBatch(rest)
                 /\ suspendedSince' = (suspendedSince \/ (isShutdown /\ suspended))
       ELSE
          /\ log' = <<"No jobs to process - waiting">>
          /\ UNCHANGED <<queue, started, calls, run, result, trail, inflight, interval,
                         clearCalls, suspendedSince>>
    /\ UNCHANGED <<config, isShutdown, shutdownResolver, shutdownPromise, handle,
                   nextId, shutdownN>>

\* batcher.ts:163-179 resumed after `await job.callback()`, then 157-159 and
\* 103-108 when the job was the last one of its batch still running.
JobSettles(j, o) ==
    /\ variant = "record"
    /\ run[j] = "running"
    /\ op' = "settle"
    /\ ret' = "none"
    /\ run' = [run EXCEPT ![j] = o]
    /\ result' = [result EXCEPT ![j] = ResultOf(o)]
    /\ trail' = [trail EXCEPT ![j] = @ \o <<ResultOf(o).status>>]
    /\ LET b == CHOOSE s \in inflight : j \in s
           allDone == \A k \in b \ {j} : run[k] # "running"
       IN IF allDone THEN
             /\ inflight' = inflight \ {b}
             /\ log' = AfterBatchLog(queue)
             /\ AfterBatch(queue)
          ELSE
             /\ log' = <<>>
             /\ UNCHANGED <<inflight, interval, clearCalls>>
    /\ UNCHANGED <<config, queue, isShutdown, shutdownResolver, shutdownPromise,
                   handle, calls, started, nextId, ghost>>

\* -------------------------------------------------------------- shutdown
\* Mutant of Shutdown: shutdown() clears the timer itself and drops the queue.
ShutdownStopsAtOnce ==
    /\ variant = "record"
    /\ op' = "shutdown"
    /\ ret' = "undefined"
    /\ IF ~isShutdown THEN
          /\ isShutdown' = TRUE
          /\ queue' = <<>>
          /\ interval' = "cleared"
          /\ clearCalls' = clearCalls + 1
          /\ log' = <<"Shutting down batch processor...">>
          /\ shutdownN' = Len(queue)
          /\ ticksSince' = 0
          /\ suspendedSince' = (inflight # {})
       ELSE
          /\ log' = <<>>
          /\ UNCHANGED <<isShutdown, ghost, queue, interval, clearCalls>>
    /\ UNCHANGED <<config, trail, shutdownResolver, shutdownPromise,
                   result, handle, run, calls, inflight, started, nextId>>

\* Mutant of Shutdown: isShutdown is one flag shared by all batchers.
ShutdownSharedFlag ==
    /\ variant = "record"
    /\ op' = "shutdown"
    /\ ret' = "undefined"
    /\ IF ~isShutdown THEN
          /\ isShutdown' = TRUE
          /\ peer' = [peer EXCEPT !.isShutdown = TRUE]
          /\ log' = <<"Shutting down batch processor...">>
          /\ shutdownN' = Len(queue)
          /\ ticksSince' = 0
          /\ suspendedSince' = (inflight # {})
       ELSE
          /\ log' = <<>>
          /\ UNCHANGED <<isShutdown, ghost, peer>>
    /\ UNCHANGED <<variant, args, batchSize, maxBatches, trail, queue, shutdownResolver,
                   shutdownPromise, interval, clearCalls, result, handle, run, calls,
                   inflight, started, nextId>>

\* batcher.ts:115-120
Shutdown ==
    /\ variant = "record"
    /\ op' = "shutdown"
    /\ ret' = "undefined"
    /\ IF ~isShutdown THEN
          /\ isShutdown' = TRUE
          /\ log' = <<"Shutting down batch processor...">>
          /\ shutdownN' = Len(queue)
          /\ ticksSince' = 0
          /\ suspendedSince' = (inflight # {})
       ELSE
          /\ log' = <<>>
          /\ UNCHANGED <<isShutdown, ghost>>
    /\ UNCHANGED <<config, trail, queue, shutdownResolver, shutdownPromise, interval,
                   clearCalls, result, handle, run, calls, inflight, started, nextId>>


\* ====================================================== promise variant
\* part_000:64-86: addJob returns a promise; the executor runs at once
AddJobPromise ==
    /\ variant = "promise"
    /\ nextId <= MaxJobs
    /\ nextId' = nextId + 1
    /\ op' = "addJob"
    /\ log' = <<>>
    /\ ret' = "promise"
    /\ IF isShutdown THEN
          /\ handle' = [handle EXCEPT ![nextId] = "rejected:" \o ShuttingDown]
          /\ run' = [run EXCEPT ![nextId] = "rejected"]
          /\ UNCHANGED queue
       ELSE IF maxBatches < 1 \/ Len(queue) < maxBatches * batchSize THEN
          /\ handle' = [handle EXCEPT ![nextId] = "pending"]
          /\ queue' = Append(queue, nextId)
          /\ run' = [run EXCEPT ![nextId] = "queued"]
       ELSE
          /\ handle' = [handle EXCEPT ![nextId] = "rejected:" \o QueueFull]
          /\ run' = [run EXCEPT ![nextId] = "rejected"]
          /\ UNCHANGED queue
    /\ UNCHANGED <<config, trail, isShutdown, shutdownResolver, shutdownPromise, interval,
                   clearCalls, result, calls, inflight, started, ghost>>

\* part_000:100-106: after `await batchProcessor({ batch })`
AfterBatchPromise(q) ==
    IF FinalBatchP(isShutdown, q, shutdownResolver) THEN
        /\ interval' = "cleared"
        /\ clearCalls' = clearCalls + 1
        /\ shutdownPromise' = "fulfilled"
    ELSE
        UNCHANGED <<interval, clearCalls, shutdownPromise>>

AfterBatchPromiseLog(q) ==
    IF FinalBatchP(isShutdown, q, shutdownResolver)
    THEN <<"Batch processor shut down">> ELSE <<>>

\* part_000:92-110 with 144 (the default batch processor) and 72-79
\* (batchJob): one firing of setInterval.
ProcessBatchPromise ==
    /\ variant = "promise"
    /\ interval = "active"
    /\ op' = "tick"
    /\ ret' = "none"
    /\ ticksSince' = IF isShutdown THEN Bump(ticksSince) ELSE ticksSince
    /\ IF Len(queue) # 0 THEN
          LET sp == Splice(queue, batchSize)
              batch == sp[1]
              rest == sp[2]
          IN \E how \in [Range(batch) -> Outcome \cup {Slow}] :
              LET suspended == \E j \in Range(batch) : how[j] = Slow
              IN /\ queue' = rest
                 /\ started' = started \o batch
                 /\ calls' = [j \in JobId |->
                                 IF j \in Range(batch) THEN calls[j] + 1 ELSE calls[j]]
                 /\ run' = [j \in JobId |->
                                 IF j \in Range(batch) THEN RunOf(how[j]) ELSE run[j]]
                 /\ handle' = [j \in JobId |->
                                 IF j \in Range(batch) THEN HandleOf(how[j]) ELSE handle[j]]
                 /\ IF suspended THEN
                       /\ inflight' = inflight \cup {Range(batch)}
                       /\ log' = <<"Processing batch.">>
                       /\ UNCHANGED <<interval, clearCalls, shutdownPromise>>
                    ELSE
                       /\ inflight' = inflight
                       /\ log' = <<"Processing batch.">> \o AfterBatchPromiseLog(rest)
                       /\ AfterBatchPromise(rest)
                 /\ suspendedSince' = (suspendedSince \/ (isShutdown /\ suspended))
       ELSE
          /\ log' = <<"No jobs to process - waiting">>
          /\ UNCHANGED <<queue, started, calls, run, handle, inflight, interval,
                         clearCalls, shutdownPromise, suspendedSince>>
    /\ UNCHANGED <<config, trail, isShutdown, shutdownResolver, result, nextId, shutdownN>>

\* part_000:72-79 resumed after `await job()`, then 144 and 100-106 when the
\* job was the last one of its batch still running.
JobSettlesPromise(j, o) ==
    /\ variant = "promise"
    /\ run[j] = "running"
    /\ op' = "settle"
    /\ ret' = "none"
    /\ run' = [run EXCEPT ![j] = o]
    /\ handle' = [handle EXCEPT ![j] = HandleOf(o)]
    /\ LET b == CHOOSE s \in inflight : j \in s
           allDone == \A k \in b \ {j} : run[k] # "running"
       IN IF allDone THEN
             /\ inflight' = inflight \ {b}
             /\ log' = AfterBatchPromiseLog(queue)
             /\ AfterBatchPromise(queue)
          ELSE
             /\ log' = <<>>
             /\ UNCHANGED <<inflight, interval, clearCalls, shutdownPromise>>
    /\ UNCHANGED <<config, trail, queue, isShutdown, shutdownResolver, result, calls,
                   started, nextId, ghost>>

\* part_000:113-122: the first call returns a promise, a later call undefined
ShutdownPromise ==
    /\ variant = "promise"
    /\ op' = "shutdown"
    /\ IF ~isShutdown THEN
          /\ isShutdown' = TRUE
          /\ log' = <<"Shutting down batch processor...">>
          /\ shutdownResolver' = "set"
          /\ shutdownPromise' = "pending"
          /\ ret' = "shutdownPromise"
          /\ shutdownN' = Len(queue)
          /\ ticksSince' = 0
          /\ suspendedSince' = (inflight # {})
       ELSE
          /\ log' = <<>>
          /\ ret' = "undefined"
          /\ UNCHANGED <<isShutdown, shutdownResolver, shutdownPromise, ghost>>
    /\ UNCHANGED <<config, trail, queue, interval, clearCalls, result, handle, run, calls,
                   inflight, started, nextId>>

\* ------------------------------------------------------------------ Next
Next ==
    \/ AddJob
    \/ ProcessBatch
    \/ \E j \in JobId, o \in Outcome : JobSettles(j, o)
    \/ Shutdown
    \/ AddJobPromise
    \/ ProcessBatchPromise
    \/ \E j \in JobId, o \in Outcome : JobSettlesPromise(j, o)
    \/ ShutdownPromise

Spec == Init /\ [][Next]_vars

\* newBatcher tried with any arguments; a batcher that was built is then
\* given its first job, ticks, and is shut down.
NextCall ==
    \/ NewBatcher
    \/ (interval # "none" /\ nextId = 1 /\ AddJob)
    \/ (interval # "none" /\ nextId = 1 /\ AddJobPromise)
    \/ ProcessBatch
    \/ ProcessBatchPromise
    \/ \E j \in JobId, o \in Outcome : JobSettles(j, o)
    \/ \E j \in JobId, o \in Outcome : JobSettlesPromise(j, o)
    \/ (interval # "none" /\ Shutdown)
    \/ (interval # "none" /\ ShutdownPromise)

CallSpec == InitCall /\ [][NextCall]_vars

\* ----------------------------------------------------------- two batchers
\* newBatcher called twice with the same arguments (record draft).  The
\* second batcher is held in `peer`; its callbacks finish within their tick.
main == <<variant, args, batchSize, maxBatches, queue, isShutdown, shutdownResolver,
          shutdownPromise, interval, clearCalls, result, handle, run, calls,
          inflight, started, nextId, op, ret, log, trail, shutdownN, ticksSince,
          suspendedSince>>

InitPair ==
    /\ variant = "record"
    /\ args \in RunArgs
    /\ batchSize = StoredBatchSize(BatchSizeParam(args))
    /\ maxBatches = NormMaxBatches(MaxBatchesParam(args))
    /\ queue = <<>>
    /\ isShutdown = FALSE
    /\ shutdownResolver = "undefined"
    /\ shutdownPromise = "none"
    /\ interval = "active"
    /\ clearCalls = 0
    /\ result = [j \in JobId |-> NoResult]
    /\ handle = [j \in JobId |-> "none"]
    /\ run = [j \in JobId |-> "new"]
    /\ calls = [j \in JobId |-> 0]
    /\ inflight = {}
    /\ started = <<>>
    /\ nextId = 1
    /\ op = "new"
    /\ ret = "none"
    /\ log = <<"Starting batch processor">>
    /\ trail = [j \in JobId |-> <<>>]
    /\ shutdownN = -1
    /\ ticksSince = 0
    /\ suspendedSince = FALSE
    /\ peer = NewPeer

\* batcher.ts:73-92 on the second batcher
PeerAddJob ==
    /\ peer.nextId <= PairJobs
    /\ IF peer.isShutdown THEN
          peer' = [peer EXCEPT !.nextId = @ + 1]
       ELSE IF HasRoom(Len(peer.queue), maxBatches, batchSize) THEN
          peer' = [peer EXCEPT !.nextId = @ + 1,
                               !.queue = Append(@, peer.nextId),
                               !.status[peer.nextId] = NewResult.status]
       ELSE
          peer' = [peer EXCEPT !.nextId = @ + 1]
    /\ UNCHANGED main

\* batcher.ts:94-112 with 143-160 and 163-179 on the second batcher
PeerProcessBatch ==
    /\ peer.interval = "active"
    /\ IF QueueHasJobs(peer.queue) THEN
          LET size == BatchLen(batchSize, Len(peer.queue))
              sh == ShiftLoop(peer.queue, size, <<>>)
              batch == sh[1]
              rest == sh[2]
          IN \E how \in [Range(batch) -> Outcome] :
                peer' = [peer EXCEPT
                           !.queue = rest,
                           !.status = [j \in PeerJobId |->
                                          IF j \in Range(batch) THEN ResultOf(how[j]).status
                                          ELSE peer.status[j]],
                           !.interval = IF FinalBatch(peer.isShutdown, rest)
                                        THEN "cleared" ELSE @]
       ELSE
          UNCHANGED peer
    /\ UNCHANGED main

\* batcher.ts:115-120 on the second batcher
PeerShutdown ==
    /\ ~peer.isShutdown
    /\ peer' = [peer EXCEPT !.isShutdown = TRUE]
    /\ UNCHANGED main

NextPair ==
    \/ (nextId <= PairJobs /\ AddJob)
    \/ ProcessBatch
    \/ \E j \in JobId, o \in Outcome : JobSettles(j, o)
    \/ Shutdown
    \/ PeerAddJob
    \/ PeerProcessBatch
    \/ PeerShutdown

PairSpec == InitPair /\ [][NextPair]_vars

\* batcher.test.ts:70-97 (part_001:70-98): a batcher built with batchSize 1,
\* frequency 1000 and maxBatches 5 is given three jobs, then the timer fires.
InitScenario ==
    /\ variant \in {"record", "promise"}
    /\ args = [frequency |-> Num(1000), batchSize |-> <<Num(1)>>, maxBatches |-> <<Num(5)>>]
    /\ batchSize = StoredBatchSize(BatchSizeParam(args))
    /\ maxBatches = NormMaxBatches(MaxBatchesParam(args))
    /\ queue = <<>>
    /\ isShutdown = FALSE
    /\ shutdownResolver = "undefined"
    /\ shutdownPromise = "none"
    /\ interval = "active"
    /\ clearCalls = 0
    /\ result = [j \in JobId |-> NoResult]
    /\ handle = [j \in JobId |-> "none"]
    /\ run = [j \in JobId |-> "new"]
    /\ calls = [j \in JobId |-> 0]
    /\ inflight = {}
    /\ started = <<>>
    /\ nextId = 1
    /\ op = "new"
    /\ ret = "none"
    /\ log = <<"Starting batch processor">>
    /\ trail = [j \in JobId |-> <<>>]
    /\ shutdownN = -1
    /\ ticksSince = 0
    /\ suspendedSince = FALSE
    /\ peer = NoPeer

NextScenario ==
    \/ (nextId <= 3 /\ AddJob)
    \/ (nextId <= 3 /\ AddJobPromise)
    \/ (nextId = 4 /\ ProcessBatch)
    \/ (nextId = 4 /\ ProcessBatchPromise)
    \/ \E j \in JobId, o \in Outcome : JobSettles(j, o)
    \/ \E j \in JobId, o \in Outcome : JobSettlesPromise(j, o)

ScenarioSpec == InitScenario /\ [][NextScenario]_vars

\* What the timer and the callbacks are assumed to do in the liveness
\* claims: setInterval keeps firing while it is not cleared, and every
\* running callback finishes.
Tick == ProcessBatch \/ ProcessBatchPromise
Settle == \E j \in JobId, o \in Outcome : JobSettles(j, o) \/ JobSettlesPromise(j, o)
FairSpec == Init /\ [][Next]_vars /\ WF_vars(Tick) /\ WF_vars(Settle)

\* The callback of the first job submitted never finishes when it is slow
\* (its promise stays pending for ever); the timer keeps firing and every
\* other running callback finishes.
HungJobs == {1}
SettleOthers ==
    \E j \in JobId \ HungJobs, o \in Outcome : JobSettles(j, o) \/ JobSettlesPromise(j, o)
NextHung ==
    \/ AddJob
    \/ ProcessBatch
    \/ \E j \in JobId \ HungJobs, o \in Outcome : JobSettles(j, o)
    \/ Shutdown
    \/ AddJobPromise
    \/ ProcessBatchPromise
    \/ \E j \in JobId \ HungJobs, o \in Outcome : JobSettlesPromise(j, o)
    \/ ShutdownPromise
HungSpec == Init /\ [][NextHung]_vars /\ WF_vars(Tick) /\ WF_vars(SettleOthers)

\* ================================================================ claims
Capacity == maxBatches * batchSize
Ceil(n, b) == (n + b - 1) \div b
Max(a, b) == IF a > b THEN a ELSE b
Accepted(j) == run[j] \notin {"new", "rejected"}
Terminal(j) ==
    IF variant = "record" THEN result[j].status \in {Complete, Failed}
    ELSE handle[j] \in {"resolved", "rejected:Error", "rejected:other"}
\* the step is an addJob call (of the job nextId)
AddJobStep == nextId' = nextId + 1
\* that call was rejected with error e and left the queue alone
RejectedWith(e) ==
    /\ queue' = queue
    /\ run'[nextId] = "rejected"
    /\ IF variant = "record" THEN ret' = e /\ result'[nextId] = NoResult
       ELSE handle'[nextId] = "rejected:" \o e
\* that call was accepted
AcceptedStep ==
    /\ queue' = Append(queue, nextId)
    /\ run'[nextId] = "queued"
    /\ IF variant = "record" THEN ret' = "job" /\ result'[nextId].status = Pending
       ELSE handle'[nextId] = "pending"

\* C1: with maxBatches > 0 the queue never holds more than
\* maxBatches * batchSize jobs, whatever the interleaving of addJob, ticks
\* and shutdown.
C1_QueueWithinCapacity == maxBatches > 0 => Len(queue) <= Capacity
\* a full queue that has just turned a job away, after a tick drained some
C1_Witness ==
    /\ maxBatches > 0 /\ Len(queue) = Capacity
    /\ op = "addJob" /\ run[nextId - 1] = "rejected" /\ ~isShutdown
    /\ Len(started) > 0

\* C2: jobs begin execution in the order they were submitted (job ids are
\* handed out in submission order): the started jobs followed by the queued
\* ones are in increasing order of id.
C2_FifoStart ==
    LET s == started \o queue
    IN \A i, k \in 1..Len(s) : i < k => s[i] < s[k]
C2_Witness ==
    /\ Len(started) = MaxJobs /\ batchSize = 1 /\ Cardinality(inflight) >= 2

\* C3: the timer starts no tick while an earlier tick is still awaiting the
\* callbacks of its batch.
C3_NoOverlappingTicks == [][inflight # {} => op' # "tick"]_vars

\* C4: when shutdown is signalled complete (timer cleared, shutdown promise
\* resolved, "Batch processor shut down" logged) every accepted job is
\* terminal.
C4_CompleteMeansAllTerminal ==
    interval = "cleared" => \A j \in JobId : Accepted(j) => Terminal(j)

\* C5: once shutdown() has been called, the timer is eventually cleared
\* (and the shutdown signal fulfilled), given the timer keeps firing and
\* every callback finishes.
C5_ShutdownCompletes == isShutdown ~> interval = "cleared"

\* C6: shutdown() called with an empty queue and no tick in flight: the
\* next tick clears the timer and fulfills the shutdown signal.
C6_EmptyShutdownNextTick ==
    [][(/\ isShutdown /\ shutdownN = 0 /\ ~suspendedSince /\ ticksSince = 0
        /\ interval = "active" /\ op' = "tick")
       => interval' = "cleared"]_vars

\* C7: shutdown() called with N >= 1 jobs queued and batch size b, every
\* callback finishing within its tick: the t-th tick after the call leaves
\* max(0, N - t*b) jobs queued, the timer is active before tick ceil(N/b)
\* and cleared exactly once, with the signal fulfilled, by that tick.
C7_ShutdownDrainTicks ==
    (isShutdown /\ shutdownN >= 1 /\ ~suspendedSince) =>
        LET need == Ceil(shutdownN, batchSize)
        IN /\ ticksSince <= need
           /\ Len(queue) = Max(0, shutdownN - ticksSince * batchSize)
           /\ ((interval = "active") <=> (ticksSince < need))
           /\ clearCalls = (IF ticksSince = need THEN 1 ELSE 0)
           /\ (variant = "promise") =>
                 ((shutdownPromise = "fulfilled") <=> (ticksSince = need))
C7_Witness ==
    /\ isShutdown /\ ~suspendedSince /\ shutdownN = 3 /\ batchSize = 2
    /\ ticksSince = 2 /\ interval = "cleared" /\ op = "tick"

\* C8: while isShutdown is true every addJob fails with ShuttingDown, never
\* QueueFull, and leaves the queue unchanged.
C8_ShutdownRejects ==
    [][(isShutdown /\ AddJobStep) => RejectedWith(ShuttingDown)]_vars
\* a job turned away with ShuttingDown although the queue is also full
C8_Witness ==
    /\ isShutdown /\ op = "addJob" /\ run[nextId - 1] = "rejected"
    /\ maxBatches > 0 /\ Len(queue) = Capacity
    /\ IF variant = "record" THEN ret = ShuttingDown
       ELSE handle[nextId - 1] = "rejected:" \o ShuttingDown

\* C9: not shut down, maxBatches > 0 and the queue at maxBatches * batchSize:
\* addJob fails with QueueFull and leaves the queue unchanged.
C9_FullRejects ==
    [][(~isShutdown /\ maxBatches > 0 /\ Len(queue) = Capacity /\ AddJobStep)
       => RejectedWith(QueueFull)]_vars
\* m*b accepted submissions with no tick in between, then a rejected one
C9_Witness ==
    /\ ~isShutdown /\ op = "addJob" /\ run[nextId - 1] = "rejected"
    /\ Capacity = 2 /\ queue = <<1, 2>> /\ started = <<>> /\ nextId = 4
    /\ IF variant = "record" THEN ret = QueueFull
       ELSE handle[nextId - 1] = "rejected:" \o QueueFull

\* C10: not shut down and the queue below maxBatches * batchSize: addJob is
\* accepted; so it is again after a tick has drained a full queue.
C10_BelowCapacityAccepts ==
    [][(~isShutdown /\ Len(queue) < Capacity /\ AddJobStep) => AcceptedStep]_vars
\* capacity 1: job 1 filled the queue, job 2 was turned away, a tick drained
\* job 1, and job 3 was accepted
C10_Witness ==
    /\ maxBatches = 1 /\ batchSize = 1 /\ ~isShutdown
    /\ op = "addJob" /\ run[1] \in Outcome /\ run[2] = "rejected"
    /\ queue = <<3>> /\ run[3] = "queued"

\* ---------------------------------------------------------- C11 .. C20
Failures == {"throwsError", "throwsOther"}
FailedJob(j) == run[j] \in Failures
\* the step is a firing of the timer
TickStep == op' = "tick"
IsPrefix(a, b) == Len(a) <= Len(b) /\ a = SubSeq(b, 1, Len(a))

\* C11: with maxBatches = 0 the queue is unbounded: an addJob on a Batcher
\* that is not shut down is accepted whatever the queue length, and no
\* addJob ever fails with QueueFull.
C11_ZeroMeansUnlimited ==
    (maxBatches = 0 /\ op = "addJob") =>
        /\ ret # QueueFull
        /\ handle[nextId - 1] # "rejected:" \o QueueFull
        /\ ~isShutdown => (run[nextId - 1] = "queued" /\ queue[Len(queue)] = nextId - 1)
\* MaxJobs jobs queued at batch size 1
C11_Witness ==
    /\ maxBatches = 0 /\ batchSize = 1 /\ op = "addJob" /\ ~isShutdown
    /\ Len(queue) = MaxJobs

\* C12: an accepted addJob appends exactly one Pending job at the tail of
\* the queue (length + 1), and a rejected one leaves the queue as it was;
\* either way the other jobs and isShutdown are unchanged.
C12_AddJobEffect ==
    [][AddJobStep =>
        /\ isShutdown' = isShutdown
        /\ \A j \in JobId \ {nextId} :
              result'[j] = result[j] /\ handle'[j] = handle[j] /\ run'[j] = run[j]
        /\ IF run'[nextId] = "queued"
           THEN /\ queue' = Append(queue, nextId)
                /\ Len(queue') = Len(queue) + 1
                /\ IF variant = "record" THEN result'[nextId].status = Pending
                   ELSE handle'[nextId] = "pending"
           ELSE /\ queue' = queue
                /\ run'[nextId] = "rejected"]_vars
\* a job accepted behind a queued one while an earlier job is running
C12_Witness ==
    /\ op = "addJob" /\ Len(queue) = 2 /\ queue[2] = nextId - 1
    /\ run[nextId - 1] = "queued" /\ \E j \in JobId : run[j] = "running"

\* C13: the values written to a job's status form a prefix of
\* Pending, InProgress, Complete or of Pending, InProgress, Failed: no
\* write skips InProgress, goes back, or follows a terminal status.
C13_StatusMonotonic ==
    \A j \in JobId :
        /\ \/ IsPrefix(trail[j], <<Pending, InProgress, Complete>>)
           \/ IsPrefix(trail[j], <<Pending, InProgress, Failed>>)
        /\ variant = "record" /\ trail[j] # <<>> => result[j].status = trail[j][Len(trail[j])]
\* one job went all the way to Failed after running slow, another to Complete
C13_Witness ==
    /\ \E j \in JobId : trail[j] = <<Pending, InProgress, Failed>> /\ op = "settle"
    /\ \E j \in JobId : trail[j] = <<Pending, InProgress, Complete>>

\* C14: a tick on a non-empty queue removes exactly min(batchSize, length)
\* jobs from the head, runs them, and leaves the rest in order.
C14_TickDrainsBatch ==
    [][(Len(queue) > 0 /\ TickStep) =>
        LET n == IF batchSize < Len(queue) THEN batchSize ELSE Len(queue)
        IN /\ queue' = SubSeq(queue, n + 1, Len(queue))
           /\ started' = started \o SubSeq(queue, 1, n)
           /\ \A i \in 1..n : calls'[queue[i]] = calls[queue[i]] + 1]_vars
\* a tick took two of three jobs
C14_Witness ==
    /\ op = "tick" /\ batchSize = 2 /\ started = <<1, 2>> /\ queue = <<3>>

\* C15: a tick that finds the queue empty changes nothing and logs only the
\* "no jobs / waiting" notice.
C15_IdleTick ==
    [][(Len(queue) = 0 /\ TickStep) =>
        /\ UNCHANGED <<queue, result, handle, run, calls, trail, started, inflight>>
        /\ UNCHANGED <<isShutdown, shutdownResolver, shutdownPromise, interval, clearCalls>>
        /\ log' = <<"No jobs to process - waiting">>]_vars
\* an idle tick after the queue was emptied, with shutdown requested
C15_Witness ==
    /\ op = "tick" /\ log = <<"No jobs to process - waiting">>
    /\ isShutdown /\ interval = "active"

\* C16: every job taken off the queue is executed, and a finished job ends
\* in the state of its own outcome, Complete for a callback that returned
\* and Failed for one that threw, whatever its siblings did.
C16_Isolation ==
    \A j \in JobId :
        /\ (Accepted(j) /\ j \notin Range(queue)) => (calls[j] = 1 /\ run[j] # "queued")
        /\ run[j] \in Outcome =>
              IF variant = "record"
              THEN result[j].status = (IF run[j] = "returns" THEN Complete ELSE Failed)
              ELSE handle[j] = (IF run[j] = "returns" THEN "resolved"
                                ELSE IF run[j] = "throwsError" THEN "rejected:Error"
                                ELSE "rejected:other")
\* one batch of two: the first job threw a non-Error, the second returned
C16_Witness ==
    /\ op = "tick" /\ batchSize = 2 /\ started = <<1, 2>> /\ variant = "record"
    /\ log[1] = "Processing batch of 2 jobs."
    /\ result[1].status = Failed /\ run[1] = "throwsOther"
    /\ result[2].status = Complete

\* C17: a failed job does not stop the drain loop: with a failed job around,
\* the timer is active as long as shutdown has not completed (not requested,
\* or jobs still queued), so the next tick can drain.
C17_FailureKeepsTimer ==
    ((\E j \in JobId : FailedJob(j)) /\ (~isShutdown \/ Len(queue) > 0))
        => (interval = "active" /\ clearCalls = 0)
\* the first tick's job failed and a later tick ran the next job
C17_Witness ==
    /\ batchSize = 1 /\ started = <<1, 2>> /\ FailedJob(1) /\ run[2] = "returns"
    /\ op = "tick" /\ interval = "active" /\ queue = <<3>>

\* C18: clearInterval is called, and shutdown completion signalled, at most
\* once over the life of a Batcher.
C18_ClearedAtMostOnce == clearCalls <= 1

\* C19: the timer is cleared only with shutdown requested and the queue
\* empty: never while isShutdown is false, and once it is cleared the queue
\* is empty.
C19_ClearedOnlyWhenDrained ==
    /\ interval = "cleared" => (isShutdown /\ Len(queue) = 0)
    /\ (interval = "cleared") <=> (clearCalls > 0)
\* capacity 1: the tick of job 1 emptied the queue and left the timer on, so
\* job 2 was accepted and run later; then shutdown, and the timer cleared
C19_Witness ==
    /\ maxBatches = 1 /\ batchSize = 1 /\ started = <<1, 2>>
    /\ isShutdown /\ interval = "cleared" /\ queue = <<>>

\* C20: once isShutdown is true the queue never grows; it changes only by
\* ticks, which shorten it, and an empty queue stays empty.
C20_NoGrowthAfterShutdown ==
    [][isShutdown =>
        /\ Len(queue') <= Len(queue)
        /\ queue' # queue => TickStep
        /\ isShutdown']_vars
\* shutdown with jobs queued, some drained, an addJob turned away
C20_Witness ==
    /\ isShutdown /\ shutdownN >= 2 /\ Len(queue) = 1 /\ op = "addJob"

\* ---------------------------------------------------------- C21 .. C30
\* the step is a shutdown() call
ShutdownStep == op' = "shutdown"
\* the state of the batcher and of the jobs it has accepted
BatcherState == <<queue, isShutdown, shutdownResolver, shutdownPromise, interval,
                  clearCalls, inflight, started, calls>>
JobState(j) == <<result[j], handle[j], run[j]>>

\* C21: a shutdown() call made when isShutdown is already true changes
\* nothing in the batcher or its jobs, logs nothing, and returns what the
\* first call returned (the shutdown promise where there is one).
C21_ShutdownIdempotent ==
    [][(isShutdown /\ ShutdownStep) =>
        /\ UNCHANGED BatcherState
        /\ UNCHANGED <<result, handle, run>>
        /\ log' = <<>>
        /\ ret' = (IF shutdownPromise = "none" THEN "undefined" ELSE "shutdownPromise")]_vars

\* C22: the lifecycle only moves forward: isShutdown never goes back to
\* false, the timer is cleared only with isShutdown true, and once the timer
\* is cleared no tick fires and nothing changes in the batcher or in the
\* jobs it has accepted.
C22_LifecycleForward ==
    [][/\ isShutdown => isShutdown'
       /\ (interval = "active" /\ interval' = "cleared") => isShutdown
       /\ interval = "cleared" =>
             /\ ~TickStep
             /\ UNCHANGED BatcherState
             /\ \A j \in JobId : Accepted(j) => JobState(j)' = JobState(j)]_vars

\* C23: promise variant: the handle of an accepted job is pending while the
\* job is queued or running; it was settled by the one run of the callback,
\* resolved when that returned and rejected with what it threw; the handle
\* of a refused submission is rejected with ShuttingDown or QueueFull.
C23_HandleSettles ==
    variant = "promise" =>
        \A j \in JobId :
            /\ run[j] = "new" => handle[j] = "none"
            /\ run[j] = "rejected" =>
                  handle[j] \in {"rejected:" \o ShuttingDown, "rejected:" \o QueueFull}
            /\ run[j] = "queued" => (handle[j] = "pending" /\ calls[j] = 0)
            /\ run[j] = "running" => (handle[j] = "pending" /\ calls[j] = 1)
            /\ run[j] = "returns" => (handle[j] = "resolved" /\ calls[j] = 1)
            /\ run[j] = "throwsError" => (handle[j] = "rejected:Error" /\ calls[j] = 1)
            /\ run[j] = "throwsOther" => (handle[j] = "rejected:other" /\ calls[j] = 1)
\* one handle resolved after a slow run, one rejected with the thrown Error,
\* one still pending in the queue
C23_Witness ==
    /\ variant = "promise" /\ op = "settle"
    /\ \E j \in JobId : handle[j] = "resolved"
    /\ \E j \in JobId : handle[j] = "rejected:Error"
    /\ \E j \in JobId : handle[j] = "pending" /\ run[j] = "queued"

\* C24: record variant: a callback that returned leaves Complete, a message
\* and no error; one that threw an Error leaves Failed and the error; one
\* that threw another value leaves Failed, the "Error type unknown" message
\* and no error; a Pending or InProgress job has no message and no error.
C24_ResultMatchesOutcome ==
    variant = "record" =>
        \A j \in JobId :
            /\ run[j] = "returns" =>
                  /\ result[j].status = Complete
                  /\ result[j].message # "undefined"
                  /\ result[j].error = "undefined"
            /\ run[j] = "throwsError" =>
                  /\ result[j].status = Failed
                  /\ result[j].message # "undefined"
                  /\ result[j].error = "Error"
            /\ run[j] = "throwsOther" =>
                  /\ result[j].status = Failed
                  /\ result[j].message = "Job returned an error. Error type unknown"
                  /\ result[j].error = "undefined"
            /\ result[j].status \in {Pending, InProgress} =>
                  /\ result[j].message = "undefined"
                  /\ result[j].error = "undefined"
                  /\ run[j] \in {"queued", "running"}
\* all four cases at once: returned, threw an Error, threw another value
\* after running slow, and a job not finished
C24_Witness ==
    /\ variant = "record"
    /\ \E j \in JobId : run[j] = "throwsOther" /\ op = "settle"
    /\ \E j \in JobId : run[j] = "throwsError"
    /\ \E j \in JobId : run[j] = "returns"

\* C28: addJob does not run the job: the call invokes no callback and leaves
\* an accepted job Pending (its handle pending); a callback is invoked only
\* in a step that is a firing of the timer.
C28_AddJobDoesNotRun ==
    [][/\ AddJobStep =>
             /\ calls' = calls /\ started' = started
             /\ run'[nextId] \in {"queued", "rejected"}
             /\ run'[nextId] = "queued" =>
                   /\ calls'[nextId] = 0
                   /\ IF variant = "record" THEN result'[nextId].status = Pending
                      ELSE handle'[nextId] = "pending"
       /\ (calls' # calls \/ started' # started) => TickStep]_vars
\* a job accepted after ticks have run earlier jobs, itself not yet invoked
C28_Witness ==
    /\ op = "addJob" /\ run[nextId - 1] = "queued" /\ calls[nextId - 1] = 0
    /\ Len(started) >= 1 /\ nextId - 1 \notin Range(started)

\* C30: every job in the queue is Pending and not yet invoked; a job that
\* is InProgress, Complete or Failed is not in the queue.
C30_QueuedArePending ==
    \A j \in JobId :
        /\ j \in Range(queue) =>
              /\ run[j] = "queued" /\ calls[j] = 0
              /\ IF variant = "record" THEN result[j].status = Pending
                 ELSE handle[j] = "pending"
        /\ (result[j].status \in {InProgress, Complete, Failed} \/ run[j] \in Outcome \cup {"running"})
              => j \notin Range(queue)
\* a tick has just taken its batch: one job running, one finished, one queued
C30_Witness ==
    /\ op = "tick" /\ Len(queue) >= 1
    /\ \E j \in JobId : run[j] = "running"
    /\ \E j \in JobId : run[j] \in Outcome

\* ---------------------------------------------------- C25, C26 (CallSpec)
ConstructionErrors == {"frequency cannot be less than 1ms", "batch size cannot be less than 1"}
\* the number n, counted the way newBatcher's arguments are
Whole(n) == n + n

\* C25: once newBatcher(args) is over: with frequency < 1 or batchSize < 1
\* (an omitted batchSize counting as 1) it has thrown, no timer and no
\* batcher exist and no operation ever follows; otherwise the timer is
\* started and the batcher returned has isShutdown false and an empty
\* queue, and accepts its first job.
C25_ConstructionValidates ==
    op # "call" =>
        LET f == args.frequency
            b == IF args.batchSize = <<>> THEN Whole(1) ELSE args.batchSize[1]
        IN IF f < Whole(1) \/ b < Whole(1)
           THEN /\ ret \in ConstructionErrors
                /\ interval = "none"
                /\ op = "new"
                /\ batchSize = "none" /\ maxBatches = "none"
           ELSE /\ ret \notin ConstructionErrors
                /\ interval # "none"
                /\ op = "new" => (interval = "active" /\ ~isShutdown /\ queue = <<>>)
                /\ (op = "addJob" /\ ~isShutdown) => (run[1] = "queued" /\ queue = <<1>>)
\* frequency 0.5 was refused
C25_Witness ==
    /\ op = "new" /\ args.frequency = 1 /\ args.batchSize # <<>> /\ args.batchSize[1] >= Whole(1)
    /\ ret = "frequency cannot be less than 1ms" /\ interval = "none"

\* C26: the batcher built by newBatcher stores maxBatches =
\* floor(max(0, given)), 0 when it was omitted, and batchSize 1 when that
\* was omitted.
C26_MaxBatchesNormalised ==
    interval # "none" =>
        /\ maxBatches = (IF args.maxBatches = <<>> THEN 0
                         ELSE Max(0, args.maxBatches[1]) \div 2)
        /\ args.batchSize = <<>> => batchSize = 1
\* maxBatches 2.5 was stored as 2 and a job accepted
C26_Witness ==
    /\ interval # "none" /\ args.maxBatches = <<Whole(2) + 1>> /\ maxBatches = 2
    /\ args.batchSize = <<>> /\ op = "addJob"

\* ------------------------------------------------------ C27 (ScenarioSpec)
\* C27: batchSize 1, maxBatches 5, jobs 1, 2, 3 submitted before the first
\* tick.  The first tick finds the queue <<1, 2, 3>>, runs job 1 and leaves
\* <<2, 3>>, both Pending; the second runs job 2 and leaves <<3>>; the
\* third runs job 3 and leaves the queue empty.  The job a tick runs is
\* terminal after the tick unless its callback is still running.
IsPending(j) ==
    /\ run[j] = "queued"
    /\ IF variant = "record" THEN result[j].status = Pending ELSE handle[j] = "pending"
RanBy(j) == run[j] # "running" => Terminal(j)
C27_ThreeTicks ==
    [][(nextId = 4 /\ TickStep) =>
        /\ Len(started) = 0 =>
              /\ queue = <<1, 2, 3>>
              /\ started' = <<1>> /\ queue' = <<2, 3>>
              /\ RanBy(1)' /\ IsPending(2)' /\ IsPending(3)'
        /\ Len(started) = 1 =>
              /\ queue = <<2, 3>>
              /\ started' = <<1, 2>> /\ queue' = <<3>>
              /\ RanBy(2)' /\ IsPending(3)'
        /\ Len(started) = 2 =>
              /\ queue = <<3>>
              /\ started' = <<1, 2, 3>> /\ queue' = <<>>
              /\ RanBy(3)'
        /\ Len(started) >= 3 => (queue = <<>> /\ UNCHANGED <<started, queue>>)]_vars
\* the second tick has just run job 2
C27_Witness ==
    /\ batchSize = 1 /\ maxBatches = 5 /\ nextId = 4 /\ op = "tick"
    /\ started = <<1, 2>> /\ queue = <<3>> /\ Terminal(1) /\ Terminal(2)

\* ---------------------------------------------------------- C29 (PairSpec)
\* the queue, isShutdown flag, timer and job statuses of each batcher
MainBatcher == <<queue, isShutdown, interval, result>>
PeerBatcher == <<peer.queue, peer.isShutdown, peer.interval, peer.status>>

\* C29: two batchers are independent: an addJob, tick, callback completion
\* or shutdown on one leaves the queue, isShutdown flag, timer and job
\* statuses of the other as they were.
C29_Independent ==
    [][/\ main' # main => PeerBatcher' = PeerBatcher
       /\ peer' # peer => MainBatcher' = MainBatcher]_vars
\* the first batcher is shut down with its timer cleared while the second
\* still has a job queued, its timer active and isShutdown false
C29_Witness ==
    /\ isShutdown /\ interval = "cleared" /\ started = <<1>>
    /\ ~peer.isShutdown /\ peer.interval = "active" /\ peer.queue = <<1>>
    /\ peer.status[1] = Pending

\* ---------------------------------------------------------- C31 .. C36
Count(s, x) == Cardinality({i \in 1..Len(s) : s[i] = x})
Running == {j \in JobId : run[j] = "running"}

\* C32: the callback of a job is invoked at most once: no job is taken off
\* the queue by two ticks, also when ticks overlap.
C32_InvokedAtMostOnce ==
    \A j \in JobId : calls[j] <= 1 /\ Count(started, j) = calls[j]
\* three ticks at batch size 1, the first two still awaiting their jobs
C32_Witness ==
    /\ variant = "promise" /\ batchSize = 1 /\ op = "tick"
    /\ Cardinality(inflight) = 2 /\ Len(started) = 3
    /\ \A j \in 1..3 : calls[j] = 1

\* C34: jobs are conserved: an accepted job is either in the queue once or
\* was taken by one tick, so accepted = queued + taken; a job whose
\* submission was refused is not in the queue and its callback not invoked.
C34_JobsConserved ==
    /\ \A j \in JobId :
          /\ Accepted(j) => Count(queue, j) + Count(started, j) = 1
          /\ ~Accepted(j) => (Count(queue, j) = 0 /\ Count(started, j) = 0 /\ calls[j] = 0)
    /\ Cardinality({j \in JobId : Accepted(j)}) = Len(queue) + Len(started)
\* one job taken by a tick, one refused, one still queued at shutdown
C34_Witness ==
    /\ started = <<1>> /\ run[1] \in Outcome /\ run[2] = "rejected"
    /\ queue = <<3>> /\ run[3] = "queued" /\ isShutdown /\ op = "shutdown"

\* C35: at most batchSize jobs of the batcher are InProgress at any moment.
C35_AtMostBatchSizeRunning == Cardinality(Running) <= batchSize

\* C36: shutdown() leaves the queue, every job's status and result, the
\* callbacks and the timer as they were; it changes isShutdown and, in the
\* promise variant, the resolver and the promise it returns, at most.
C36_ShutdownFrame ==
    [][ShutdownStep =>
        /\ UNCHANGED <<queue, result, handle, run, calls, started, inflight>>
        /\ UNCHANGED <<interval, clearCalls>>
        /\ isShutdown'
        /\ variant = "record" => UNCHANGED <<shutdownResolver, shutdownPromise>>]_vars
\* shutdown() called with two jobs queued and one running
C36_Witness ==
    /\ op = "shutdown" /\ log = <<"Shutting down batch processor...">>
    /\ Len(queue) = 2 /\ Running # {} /\ interval = "active"

\* C31 (HungSpec): a callback that never finishes holds up its own batch
\* only: every other accepted job is still taken by a tick and reaches a
\* terminal state.
C31_HungHoldsOwnBatchOnly ==
    \A j \in JobId \ HungJobs : Accepted(j) ~> Terminal(j)
\* job 1 hangs; the jobs submitted after it were run by later ticks
C31_Witness ==
    /\ run[1] = "running" /\ batchSize = 1 /\ started = <<1, 2, 3>>
    /\ Terminal(2) /\ Terminal(3) /\ op = "tick"

\* C33 (FairSpec): every accepted job eventually reaches a terminal state,
\* given the timer keeps firing and every callback finishes; so do the jobs
\* queued when shutdown() is called.
C33_AcceptedEventuallyTerminal ==
    \A j \in JobId : Accepted(j) ~> Terminal(j)
\* three jobs were queued at shutdown(); all ran and the timer was cleared
C33_Witness ==
    /\ isShutdown /\ shutdownN = 3 /\ interval = "cleared"
    /\ \A j \in 1..3 : Terminal(j)

====
